---- MODULE Spec2Model ----
(***************************************************************************)
(* WhatsApp Automator: the recurrence scheduler (app.py schedule_job and   *)
(* its job closure job_func) and the dispatch engine (sender.py dispatch,  *)
(* get_driver, pick_message, send_whatsapp).                               *)
(*                                                                         *)
(* Two threads run the job body: "fg", the interactive thread, which runs  *)
(* it inline for interval 'Now', and "bg", the background scheduler's      *)
(* worker, which runs it when the registered trigger fires.                *)
(***************************************************************************)
EXTENDS Integers, Sequences, FiniteSets, TLC

(* ------------------------------ bounds -------------------------------- *)

\* number of schedule_job calls explored
MaxCalls == 2
\* longest group member list explored by the resolution specification
MaxMembers == 3
\* days the calendar specification steps the clock
MaxDays == 60

(* --------------------------- the data store --------------------------- *)

Threads == {"fg", "bg"}

job_id == "whatsapp_job"

IntervalTypes == {"Now", "Daily", "Weekly", "Monthly"}

Categories == <<"quote", "verse", "hadith">>

\* friend rows (id, name, number); number is UNIQUE
Alice == <<1, "Alice", "+10001">>
Bob == <<2, "Bob", "+10002">>
Carol == <<3, "Carol", "+10003">>

Numbers == {"+10001", "+10002", "+10003"}

\* the (is_group, target_id) pairs schedule_job is called with: friend 1,
\* a friend id with no row, group 1, group 2
Selections == { <<FALSE, 1>>, <<FALSE, 3>>, <<TRUE, 1>>, <<TRUE, 2>> }

\* template rows (category, content, is_image); content is a sequence of
\* characters, "\n" the line break
Templates ==
    { [category |-> "quote", content |-> <<"q">>, is_image |-> 0],
      [category |-> "verse", content |-> <<"v", "\n", "w">>, is_image |-> 0],
      [category |-> "hadith", content |-> <<"h">>, is_image |-> 1] }

\* the template tables explored: all three categories filled, or no quote
TemplateStores == { Templates, {t \in Templates : t.category # "quote"} }

VARIABLES
    friends,          \* app.py friends: the friend snapshot, a list of rows
    groups_members,   \* app.py groups_members: group id -> list of numbers
    template,         \* the template table read by pick_message
    jobs,             \* the jobs held by sched, in the order they were added
    nCalls,           \* schedule_job calls made so far
    lastCall,         \* arguments of the latest schedule_job call
    run,              \* per thread: the job_func invocation it runs or ran last
    clock             \* the scheduler's calendar: date, days elapsed, firings

vars == <<friends, groups_members, template, jobs, nCalls, lastCall, run, clock>>

(* ------------------- recipient resolution (job_func) ------------------ *)

Last(s) == s[Len(s)]

\* friend_map = {num: name for (_id, name, num) in friends}: a later row
\* with the same number overwrites an earlier one
friend_map(fr) ==
    [ num \in { fr[k][3] : k \in 1..Len(fr) } |->
        LET ks == { k \in 1..Len(fr) : fr[k][3] = num }
            last == CHOOSE k \in ks : \A j \in ks : j <= k
        IN  fr[last][2] ]

\* mutant: the loop walks the friend rows and keeps the members, so the
\* result comes in friend order
RECURSIVE group_contacts_friend_order(_, _)
group_contacts_friend_order(fr, members) ==
    IF fr = <<>> THEN <<>>
    ELSE LET f == Last(fr)
             rest == group_contacts_friend_order(SubSeq(fr, 1, Len(fr) - 1), members)
         IN  IF \E k \in 1..Len(members) : members[k] = f[3]
             THEN Append(rest, <<f[2], f[3]>>)
             ELSE rest

\* the group branch of job_func: for num in groups_members[target_id],
\* append (friend_map[num], num) when num is in friend_map
RECURSIVE group_contacts(_, _)
group_contacts(fr, members) ==
    IF members = <<>> THEN <<>>
    ELSE LET num == Last(members)
             rest == group_contacts(fr, SubSeq(members, 1, Len(members) - 1))
         IN  IF num \in DOMAIN friend_map(fr)
             THEN Append(rest, <<friend_map(fr)[num], num>>)
             ELSE rest

\* mutant: a friend id without a row gives the empty list,
\* [f for f in friends if f[0] == target_id][:1]
single_contact_or_empty(fr, target_id) ==
    LET ks == { k \in 1..Len(fr) : fr[k][1] = target_id }
    IN  IF ks = {}
        THEN [ok |-> TRUE, contacts |-> <<>>]
        ELSE LET first == CHOOSE k \in ks : \A j \in ks : k <= j
             IN  [ok |-> TRUE, contacts |-> << <<fr[first][2], fr[first][3]>> >>]

\* the single-friend branch: next(f for f in friends if f[0] == target_id);
\* the first matching row, StopIteration when there is none
single_contact(fr, target_id) ==
    LET ks == { k \in 1..Len(fr) : fr[k][1] = target_id }
    IN  IF ks = {}
        THEN [ok |-> FALSE, contacts |-> <<>>]
        ELSE LET first == CHOOSE k \in ks : \A j \in ks : k <= j
             IN  [ok |-> TRUE, contacts |-> << <<fr[first][2], fr[first][3]>> >>]

\* the contact list job_func builds, or the failure of building it
resolve(is_group, target_id, fr, gm) ==
    IF is_group
    THEN [ok |-> TRUE, contacts |-> group_contacts(fr, gm[target_id])]
    ELSE single_contact(fr, target_id)

(* ------------------------ pick_message (sender) ----------------------- *)

greetings ==
    [ c \in {"quote", "verse", "hadith"} |->
        CASE c = "quote" -> <<"Assalamu alaikum! Here's some motivation:", "\n", "\n">>
          [] c = "verse" -> <<"Salam! A verse for you:", "\n", "\n">>
          [] c = "hadith" -> <<"Peace be upon you. A hadith to reflect on:", "\n", "\n">> ]

\* what c.fetchone() returns when the SELECT has no row
NoRow == [category |-> "none", content |-> <<>>, is_image |-> 0]

NoMsg == [ok |-> FALSE, text |-> <<>>, is_image |-> FALSE]

\* the rows "SELECT ... WHERE category=? ORDER BY RANDOM() LIMIT 1" may give
fetchone(tpl, category) ==
    IF \E t \in tpl : t.category = category
    THEN { t \in tpl : t.category = category }
    ELSE { NoRow }

\* mutant: the greeting is prepended only when the template is not an image
pick_message_greet_text_only(category, row) ==
    IF row = NoRow
    THEN NoMsg
    ELSE [ok |-> TRUE,
          text |-> IF row.is_image # 0 THEN row.content
                   ELSE greetings[category] \o row.content,
          is_image |-> (row.is_image # 0)]

\* pick_message with the category drawn by random.choice and the row drawn
\* by the SELECT; unpacking None raises TypeError
pick_message(category, row) ==
    IF row = NoRow
    THEN NoMsg
    ELSE [ok |-> TRUE, text |-> greetings[category] \o row.content,
          is_image |-> (row.is_image # 0)]

(* ------------------------ typing (send_whatsapp) ---------------------- *)

\* message.split("\n")
RECURSIVE split(_)
split(text) ==
    IF \A k \in 1..Len(text) : text[k] # "\n"
    THEN << text >>
    ELSE LET i == CHOOSE k \in 1..Len(text) :
                      text[k] = "\n" /\ \A j \in 1..(k - 1) : text[j] # "\n"
         IN  << SubSeq(text, 1, i - 1) >> \o split(SubSeq(text, i + 1, Len(text)))

\* mutant: every line is followed by ENTER
type_lines_enter_each(lines) ==
    [ k \in 1..Len(lines) |-> [line |-> lines[k], key |-> "ENTER"] ]

\* the send_keys calls of step 5: every line but the last with SHIFT+ENTER,
\* the last line with ENTER
type_lines(lines) ==
    [ k \in 1..Len(lines) |->
        [line |-> lines[k],
         key |-> IF k < Len(lines) THEN "SHIFT+ENTER" ELSE "ENTER"] ]

(* ------------------------- the trigger registry ----------------------- *)

\* mutant: 'Monthly' is registered as "every 30 days"
cron_args_30_days(interval_type) ==
    CASE interval_type = "Daily" -> [trigger |-> "interval", days |-> 1, weeks |-> 0, day |-> 0]
      [] interval_type = "Weekly" -> [trigger |-> "interval", days |-> 0, weeks |-> 1, day |-> 0]
      [] interval_type = "Monthly" -> [trigger |-> "interval", days |-> 30, weeks |-> 0, day |-> 0]
      [] OTHER -> [trigger |-> "none", days |-> 0, weeks |-> 0, day |-> 0]

\* cron_args of schedule_job
cron_args(interval_type) ==
    CASE interval_type = "Daily" -> [trigger |-> "interval", days |-> 1, weeks |-> 0, day |-> 0]
      [] interval_type = "Weekly" -> [trigger |-> "interval", days |-> 0, weeks |-> 1, day |-> 0]
      [] interval_type = "Monthly" -> [trigger |-> "cron", days |-> 0, weeks |-> 0, day |-> 1]
      [] OTHER -> [trigger |-> "none", days |-> 0, weeks |-> 0, day |-> 0]

\* mutant: the lookup never finds the job
get_job_never(js, id) == FALSE

\* sched.get_job(job_id)
get_job(js, id) == \E k \in 1..Len(js) : js[k].id = id

\* mutant: remove_job leaves the job in the store
remove_job_noop(js, id) == js

\* sched.remove_job(job_id)
remove_job(js, id) == SelectSeq(js, LAMBDA j : j.id # id)

\* sched.add_job(job_func, id=job_id, **cron_args); job_func closes over
\* is_group and target_id; reg numbers the registration
add_job(js, id, args, is_group, target_id, reg) ==
    Append(js, [id |-> id, args |-> args, is_group |-> is_group,
                target_id |-> target_id, reg |-> reg])

(* --------------------- one job_func invocation ------------------------ *)

\* pc of a thread that runs nothing
Idle == {"idle", "returned", "raised"}
\* pc of a thread whose job_func invocation has ended
Terminal == {"returned", "raised"}

\* a thread that has run nothing yet
Blank ==
    [pc |-> "idle", reg |-> 0, is_group |-> FALSE, target_id |-> 0,
     njob |-> 0, ndispatch |-> 0, contacts |-> <<>>, i |-> 0, msg |-> NoMsg,
     category |-> "none",
     nopick |-> {}, opened |-> 0, ready |-> FALSE, closed |-> 0,
     log |-> <<>>, keys |-> <<>>, err |-> "none"]

Ev(op, idx, name) == [op |-> op, idx |-> idx, name |-> name]

\* the for loop of dispatch: the next contact, or the end of the try block
loop_head(r, i) ==
    IF i <= Len(r.contacts)
    THEN [r EXCEPT !.pc = "pick", !.i = i, !.msg = NoMsg]
    ELSE [r EXCEPT !.pc = "finally", !.i = i, !.msg = NoMsg]

\* mutant: the "if not contacts: return" guard is lost and dispatch is
\* called with the empty list
job_func_noguard(is_group, target_id, reg, fr, gm) ==
    LET res == resolve(is_group, target_id, fr, gm)
        r == [Blank EXCEPT !.reg = reg, !.is_group = is_group,
                           !.target_id = target_id, !.njob = 1]
    IN  IF ~res.ok
        THEN [r EXCEPT !.pc = "raised", !.err = "StopIteration"]
        ELSE [r EXCEPT !.pc = "open", !.contacts = res.contacts, !.ndispatch = 1]

\* job_func up to its call of dispatch: build contacts, return when there
\* are none, otherwise enter dispatch(contacts)
job_func(is_group, target_id, reg, fr, gm) ==
    LET res == resolve(is_group, target_id, fr, gm)
        r == [Blank EXCEPT !.reg = reg, !.is_group = is_group,
                           !.target_id = target_id, !.njob = 1]
    IN  IF ~res.ok
        THEN [r EXCEPT !.pc = "raised", !.err = "StopIteration"]
        ELSE IF res.contacts = <<>>
        THEN [r EXCEPT !.pc = "returned"]
        ELSE [r EXCEPT !.pc = "open", !.contacts = res.contacts, !.ndispatch = 1]

\* how get_driver may end: the chat list appears; the wait times out;
\* webdriver.Chrome() itself fails and there is no browser
DriverOutcomes == {"ok", "LoginTimeout", "WebDriverException"}

\* mutant: the except branch re-raises without driver.quit()
get_driver_noquit(r, outcome) ==
    CASE outcome = "ok" ->
            [r EXCEPT !.opened = @ + 1, !.ready = TRUE,
                      !.log = Append(@, Ev("open", 0, ""))]
      [] outcome = "LoginTimeout" ->
            [r EXCEPT !.opened = @ + 1, !.err = "LoginTimeout",
                      !.log = Append(@, Ev("open", 0, ""))]
      [] OTHER -> [r EXCEPT !.err = "WebDriverException"]

\* get_driver: start Chrome, load the client, wait for the chat list; on
\* TimeoutException quit the driver and re-raise
get_driver(r, outcome) ==
    CASE outcome = "ok" ->
            [r EXCEPT !.opened = @ + 1, !.ready = TRUE,
                      !.log = Append(@, Ev("open", 0, ""))]
      [] outcome = "LoginTimeout" ->
            [r EXCEPT !.opened = @ + 1, !.closed = @ + 1, !.err = "LoginTimeout",
                      !.log = @ \o <<Ev("open", 0, ""), Ev("close", 0, "")>>]
      [] OTHER -> [r EXCEPT !.err = "WebDriverException"]

\* dispatch, "driver = get_driver()": before the try block, so a failure
\* leaves dispatch at once
dispatch_open(r, outcome) ==
    LET d == get_driver(r, outcome)
    IN  IF d.err = "none" THEN loop_head(d, 1) ELSE [d EXCEPT !.pc = "raised"]

\* dispatch, "msg, is_img = pick_message()": a TypeError leaves the loop;
\* category records what random.choice drew inside pick_message
dispatch_pick(r, category, row) ==
    LET m == pick_message(category, row)
    IN  IF m.ok
        THEN [r EXCEPT !.pc = "send", !.msg = m, !.category = category]
        ELSE [r EXCEPT !.pc = "finally", !.err = "TypeError",
                       !.category = category, !.nopick = @ \cup {r.i}]

\* how one send_whatsapp call may end: sent; the search box never becomes
\* clickable; the header with the contact's name never appears; the compose
\* field never becomes clickable; its parent element is not found; a
\* send_keys call of step 5 raises
SendKinds ==
    {"ok", "search_timeout", "header_mismatch", "compose_timeout", "not_found",
     "send_error"}

\* an outcome is a kind and the number of send_keys calls of step 5 that
\* went through: all of them when sent, fewer when one of them raises
SendOutcomes(text) ==
    LET k == Len(split(text))
    IN  { [kind |-> c, typed |-> 0] : c \in SendKinds \ {"ok", "send_error"} }
          \cup { [kind |-> "send_error", typed |-> j] : j \in 0..(k - 1) }
          \cup { [kind |-> "ok", typed |-> k] }

\* the driver calls of one send_whatsapp call for contact i under the name
\* n, up to the call that raises
send_steps(i, n, outcome) ==
    LET e(op) == Ev(op, i, n)
        home == <<e("home")>>
        search == home \o <<e("search")>>
        confirm == search \o <<e("confirm")>>
        clear == confirm \o <<e("clear")>>
        type == clear \o <<e("type")>>
    IN  CASE outcome.kind = "search_timeout" -> home
          [] outcome.kind = "header_mismatch" -> search
          [] outcome.kind = "compose_timeout" -> confirm
          [] outcome.kind = "not_found" -> confirm
          [] outcome.kind = "send_error" -> type
          [] OTHER -> type \o <<e("settle")>>

\* mutant: the list is walked from its end, contacts[::-1]
send_whatsapp_reversed(r, outcome) ==
    LET n == r.contacts[Len(r.contacts) + 1 - r.i][1]
    IN  [r EXCEPT !.log = @ \o send_steps(r.i, n, outcome),
                  !.err = IF outcome.kind = "ok" THEN @ ELSE outcome.kind,
                  !.keys = SubSeq(type_lines(split(r.msg.text)), 1, outcome.typed)]

\* mutant: the header check of step 2 is missing, the message is typed into
\* whatever chat is open
send_whatsapp_noconfirm(r, outcome) ==
    LET n == r.contacts[r.i][1]
    IN  [r EXCEPT !.log = @ \o SelectSeq(send_steps(r.i, n, outcome),
                                         LAMBDA x : x.op # "confirm"),
                  !.err = IF outcome.kind = "ok" THEN @ ELSE outcome.kind,
                  !.keys = SubSeq(type_lines(split(r.msg.text)), 1, outcome.typed)]

\* send_whatsapp(driver, contact_name, message): the steps of one call up
\* to the one that raises, and the send_keys calls of step 5 that went
\* through; the except clauses re-raise
send_whatsapp(r, outcome) ==
    LET n == r.contacts[r.i][1]
    IN  [r EXCEPT !.log = @ \o send_steps(r.i, n, outcome),
                  !.err = IF outcome.kind = "ok" THEN @ ELSE outcome.kind,
                  !.keys = SubSeq(type_lines(split(r.msg.text)), 1, outcome.typed)]

SendErrors ==
    {"search_timeout", "header_mismatch", "compose_timeout", "not_found",
     "send_error"}

\* mutant: a failed send is caught per contact and the loop goes on
dispatch_send_isolated(r, outcome) ==
    loop_head(send_whatsapp(r, outcome), r.i + 1)

\* dispatch, "send_whatsapp(driver, name, msg, is_img)": send_whatsapp
\* re-raises, which leaves the loop
dispatch_send(r, outcome) ==
    LET s == send_whatsapp(r, outcome)
    IN  IF s.err = "none" THEN loop_head(s, r.i + 1) ELSE [s EXCEPT !.pc = "finally"]

\* mutant: no try/finally, driver.quit() follows the loop and is skipped
\* when the loop raises
dispatch_finally_after_loop(r) ==
    IF r.err = "none"
    THEN [r EXCEPT !.pc = "returned", !.closed = @ + 1,
                   !.log = Append(@, Ev("close", 0, ""))]
    ELSE [r EXCEPT !.pc = "raised"]

\* dispatch, "finally: driver.quit()", then return or re-raise
dispatch_finally(r) ==
    [r EXCEPT !.pc = IF r.err = "none" THEN "returned" ELSE "raised",
              !.closed = @ + 1,
              !.log = Append(@, Ev("close", 0, ""))]

(* ------------------------------ triggers ------------------------------ *)

\* days of the months of a year
MonthDays(leap) ==
    <<31, IF leap THEN 29 ELSE 28, 31, 30, 31, 30, 31, 31, 30, 31, 30, 31>>

\* the calendar at a date, no day elapsed, nothing fired
ClockAt(month, dom, leap) ==
    [month |-> month, dom |-> dom, leap |-> leap, day |-> 0,
     fired |-> 0, firedDoms |-> {}, firsts |-> 0]

\* the trigger built from cron_args is due on the day that starts now, age
\* days after its registration: an interval trigger every days + 7 * weeks
\* days; a cron trigger with day=d at 00:00:00 of day d of every month
trigger_due(args, age, dom) ==
    CASE args.trigger = "interval" ->
            age > 0 /\ age % (args.days + 7 * args.weeks) = 0
      [] args.trigger = "cron" -> dom = args.day
      [] OTHER -> FALSE

(* ------------------------------ actions ------------------------------- *)

NoCall ==
    [interval_type |-> "none", is_group |-> FALSE, target_id |-> 0,
     reg |-> 0, had_job |-> FALSE]

\* mutant: the "remove existing job" block is missing
schedule_jobs_no_remove(js, is_group, target_id, interval_type, reg) ==
    IF interval_type = "Now"
    THEN js
    ELSE add_job(js, job_id, cron_args(interval_type), is_group, target_id, reg)

\* mutant: the removal sits in the else branch, so 'Now' leaves a
\* registered job in place
schedule_jobs_remove_in_else(js, is_group, target_id, interval_type, reg) ==
    IF interval_type = "Now"
    THEN js
    ELSE add_job(IF get_job(js, job_id) THEN remove_job(js, job_id) ELSE js,
                 job_id, cron_args(interval_type), is_group, target_id, reg)

\* schedule_job, its effect on sched: remove the job with job_id when there
\* is one, then add the new one unless interval_type is 'Now'
schedule_jobs(js, is_group, target_id, interval_type, reg) ==
    LET removed == IF get_job(js, job_id) THEN remove_job(js, job_id) ELSE js
    IN  IF interval_type = "Now"
        THEN removed
        ELSE add_job(removed, job_id, cron_args(interval_type),
                     is_group, target_id, reg)

\* pc of a thread inside dispatch
Active == {"open", "pick", "send", "finally"}

\* mutant: removing the job also stops the run of it that is in flight
schedule_runs_cancel(rn, is_group, target_id, interval_type, fr, gm) ==
    [rn EXCEPT !["fg"] = IF interval_type = "Now"
                         THEN job_func(is_group, target_id, 0, fr, gm)
                         ELSE Blank,
               !["bg"] = IF rn["bg"].pc \in Active
                         THEN [@ EXCEPT !.pc = "raised", !.err = "cancelled"]
                         ELSE @]

\* mutant: every interval runs job_func once at the call, before the
\* trigger is registered
schedule_runs_eager(rn, is_group, target_id, interval_type, fr, gm) ==
    [rn EXCEPT !["fg"] = job_func(is_group, target_id, 0, fr, gm)]

\* schedule_job, its effect on the threads: 'Now' runs job_func on the
\* calling thread, a recurring interval runs nothing there; the worker's
\* run is not touched
schedule_runs(rn, is_group, target_id, interval_type, fr, gm) ==
    [rn EXCEPT !["fg"] = IF interval_type = "Now"
                         THEN job_func(is_group, target_id, 0, fr, gm)
                         ELSE Blank]

\* schedule_job(is_group, target_id, interval_type), called on the
\* interactive thread; 'Now' runs job_func inline
schedule_job(is_group, target_id, interval_type) ==
    /\ run["fg"].pc \in Idle
    /\ nCalls < MaxCalls
    /\ nCalls' = nCalls + 1
    /\ lastCall' = [interval_type |-> interval_type, is_group |-> is_group,
                    target_id |-> target_id, reg |-> nCalls + 1,
                    had_job |-> get_job(jobs, job_id)]
    /\ jobs' = schedule_jobs(jobs, is_group, target_id, interval_type, nCalls + 1)
    /\ run' = schedule_runs(run, is_group, target_id, interval_type,
                            friends, groups_members)
    /\ UNCHANGED <<friends, groups_members, template, clock>>

\* the trigger of a registered job fires: the scheduler's worker runs the
\* job's job_func (one instance of a job id at a time)
Fire ==
    /\ run["bg"].pc \in Idle
    /\ \E k \in 1..Len(jobs) :
          run' = [run EXCEPT !["bg"] =
                    job_func(jobs[k].is_group, jobs[k].target_id, jobs[k].reg,
                             friends, groups_members)]
    /\ UNCHANGED <<friends, groups_members, template, jobs, nCalls, lastCall, clock>>

\* thread t opens the session of its dispatch run
Open(t) ==
    /\ run[t].pc = "open"
    /\ \E outcome \in DriverOutcomes :
          run' = [run EXCEPT ![t] = dispatch_open(run[t], outcome)]
    /\ UNCHANGED <<friends, groups_members, template, jobs, nCalls, lastCall, clock>>

\* thread t picks the message for its current contact
Pick(t) ==
    /\ run[t].pc = "pick"
    /\ \E c \in 1..Len(Categories) :
          \E row \in fetchone(template, Categories[c]) :
             run' = [run EXCEPT ![t] = dispatch_pick(run[t], Categories[c], row)]
    /\ UNCHANGED <<friends, groups_members, template, jobs, nCalls, lastCall, clock>>

\* thread t sends to its current contact
Send(t) ==
    /\ run[t].pc = "send"
    /\ \E outcome \in SendOutcomes(run[t].msg.text) :
          run' = [run EXCEPT ![t] = dispatch_send(run[t], outcome)]
    /\ UNCHANGED <<friends, groups_members, template, jobs, nCalls, lastCall, clock>>

\* thread t leaves the try block of dispatch
Finally(t) ==
    /\ run[t].pc = "finally"
    /\ run' = [run EXCEPT ![t] = dispatch_finally(run[t])]
    /\ UNCHANGED <<friends, groups_members, template, jobs, nCalls, lastCall, clock>>

\* the snapshot app.py loads at start, sched empty, nothing running
Init ==
    /\ friends = <<Alice, Bob>>
    /\ groups_members \in
          { (1 :> <<"+10001", "+10002">>) @@ (2 :> m) : m \in { <<>>, <<"+10003">> } }
    /\ template \in TemplateStores
    /\ jobs = <<>>
    /\ nCalls = 0
    /\ lastCall = NoCall
    /\ run = [t \in Threads |-> Blank]
    /\ clock = ClockAt(1, 1, FALSE)

Next ==
    \/ \E sel \in Selections, interval_type \in IntervalTypes :
          schedule_job(sel[1], sel[2], interval_type)
    \/ Fire
    \/ \E t \in Threads : Open(t)
    \/ \E t \in Threads : Pick(t)
    \/ \E t \in Threads : Send(t)
    \/ \E t \in Threads : Finally(t)

Spec == Init /\ [][Next]_vars

\* a step of the dispatch run on the scheduler's worker
BgStep == Open("bg") \/ Pick("bg") \/ Send("bg") \/ Finally("bg")

\* one start-up snapshot: the template table without quotes, so that a
\* pick can succeed and can fail, and group 2 with a member without a row
InitOne ==
    /\ Init
    /\ template = {t \in Templates : t.category # "quote"}
    /\ groups_members[2] = <<"+10003">>

\* the program started from that snapshot
SpecOne == InitOne /\ [][Next]_vars

(* ---------------------- the calendar specification -------------------- *)

\* midnight: the next day starts; the job whose trigger is due fires, and
\* the worker runs its job_func when it is free
Tick ==
    /\ jobs # <<>>
    /\ clock.day < MaxDays
    /\ LET last == clock.dom = MonthDays(clock.leap)[clock.month]
           dom == IF last THEN 1 ELSE clock.dom + 1
           month == IF last THEN (clock.month % 12) + 1 ELSE clock.month
           age == clock.day + 1
           due == { k \in 1..Len(jobs) : trigger_due(jobs[k].args, age, dom) }
       IN  /\ clock' = [clock EXCEPT
                          !.dom = dom, !.month = month, !.day = age,
                          !.fired = @ + Cardinality(due),
                          !.firedDoms = IF due = {} THEN @ ELSE @ \cup {dom},
                          !.firsts = IF dom = 1 THEN @ + 1 ELSE @]
           /\ run' = IF due # {} /\ run["bg"].pc \in Idle
                     THEN [run EXCEPT !["bg"] =
                             LET j == jobs[CHOOSE k \in due : TRUE]
                             IN  job_func(j.is_group, j.target_id, j.reg,
                                          friends, groups_members)]
                     ELSE run
    /\ UNCHANGED <<friends, groups_members, template, jobs, nCalls, lastCall>>

\* the job is registered on any date of a year, leap or not
InitClock ==
    /\ friends = <<Alice, Bob>>
    /\ groups_members = (1 :> <<"+10001", "+10002">>) @@ (2 :> <<>>)
    /\ template = Templates
    /\ jobs = <<>>
    /\ nCalls = 0
    /\ lastCall = NoCall
    /\ run = [t \in Threads |-> Blank]
    /\ \E leap \in BOOLEAN, month \in 1..12 :
          \E dom \in 1..MonthDays(leap)[month] : clock = ClockAt(month, dom, leap)

\* one recurring job is registered, for the group without members, whose
\* run ends at once; then the clock is stepped day by day
NextClock ==
    \/ /\ jobs = <<>>
       /\ \E interval_type \in IntervalTypes \ {"Now"} :
             schedule_job(TRUE, 2, interval_type)
    \/ Tick

SpecClock == InitClock /\ [][NextClock]_vars

(* --------------------- the resolution specification ------------------- *)

\* the friend snapshots explored: up to two distinct rows, in any order
FriendSnapshots ==
    LET rows == {Alice, Bob, Carol}
    IN  { <<>> } \cup { <<a>> : a \in rows }
          \cup { <<p[1], p[2]>> : p \in { q \in rows \X rows : q[1] # q[2] } }

\* member lists of up to n numbers, repeats and unknown numbers included
RECURSIVE MemberLists(_)
MemberLists(n) ==
    IF n = 0 THEN { <<>> }
    ELSE MemberLists(n - 1) \cup
         { Append(m, x) : m \in { l \in MemberLists(n - 1) : Len(l) = n - 1 },
                          x \in Numbers }

InitResolve ==
    /\ friends \in FriendSnapshots
    /\ groups_members \in { (1 :> m) : m \in MemberLists(MaxMembers) }
    /\ template = Templates
    /\ jobs = <<>>
    /\ nCalls = 0
    /\ lastCall = NoCall
    /\ run = [t \in Threads |-> Blank]
    /\ clock = ClockAt(1, 1, FALSE)

\* schedule_job(True, 1, 'Now') up to the call of dispatch
NextResolve == schedule_job(TRUE, 1, "Now")

SpecResolve == InitResolve /\ [][NextResolve]_vars

(* ------------------------------- claims ------------------------------- *)

Recurring == {"Daily", "Weekly", "Monthly"}

\* the job the latest schedule_job call registers when it is a recurring one
LatestJob ==
    [id |-> job_id, args |-> cron_args(lastCall.interval_type),
     is_group |-> lastCall.is_group, target_id |-> lastCall.target_id,
     reg |-> lastCall.reg]

\* the step starts a job_func invocation on the scheduler's worker
BgStarts == run["bg"].pc \in Idle /\ run'["bg"] # run["bg"]

\* C1: in every reachable state sched holds at most one job under the
\* singleton job id, whatever schedule_job calls and firings came before
C1_AtMostOneTask ==
    Len(SelectSeq(jobs, LAMBDA j : j.id = job_id)) <= 1

\* a second recurring schedule_job call found a job, and the one job left
\* has fired
C1_Witness ==
    /\ nCalls = 2
    /\ lastCall.had_job
    /\ lastCall.interval_type \in Recurring
    /\ Len(jobs) = 1
    /\ run["bg"].reg = 2

\* C2: after a recurring schedule_job call that found a job registered,
\* exactly one job is registered, with the trigger and the selection of that
\* call; and whenever a trigger fires it is the trigger of the job added last
C2_ReplaceKeepsOnlyLatest ==
    [][ /\ (lastCall'.interval_type \in Recurring /\ lastCall'.had_job)
             => jobs' = << LatestJob' >>
        /\ BgStarts
             => /\ jobs # <<>>
                /\ run'["bg"].reg = Last(jobs).reg
                /\ run'["bg"].is_group = Last(jobs).is_group
                /\ run'["bg"].target_id = Last(jobs).target_id ]_vars

\* schedule_job(.., 'Daily' or 'Monthly') then schedule_job(.., 'Weekly'):
\* the weekly job is the one registered and it has fired
C2_Witness ==
    /\ lastCall.interval_type = "Weekly"
    /\ lastCall.had_job
    /\ jobs = << LatestJob >>
    /\ jobs[1].args.weeks = 1
    /\ run["bg"].njob = 1
    /\ run["bg"].reg = lastCall.reg

\* C3: a schedule_job call with 'Now' has made exactly one invocation of the
\* job body inline, which has entered dispatch once when the selection
\* resolved to contacts, and it leaves no job registered; the call returns
\* only when that invocation has ended
C3_NowRunsInline ==
    lastCall.interval_type = "Now"
       => /\ jobs = <<>>
          /\ run["fg"].njob = 1
          /\ run["fg"].reg = 0
          /\ run["fg"].is_group = lastCall.is_group
          /\ run["fg"].target_id = lastCall.target_id
          /\ run["fg"].ndispatch = IF run["fg"].contacts = <<>> THEN 0 ELSE 1
          /\ run["fg"].pc # "idle"

\* a 'Now' call that found a job registered has returned after a dispatch
\* run over two contacts
C3_Witness ==
    /\ lastCall.interval_type = "Now"
    /\ lastCall.had_job
    /\ run["fg"].pc = "returned"
    /\ run["fg"].ndispatch = 1
    /\ Len(run["fg"].contacts) = 2
    /\ run["fg"].closed = 1
    /\ jobs = <<>>

\* C4, as claimed: once a job is registered, every later step, a
\* schedule_job call with 'Now' included, leaves a job registered
C4_OnceTaskAlwaysTask ==
    [][ jobs # <<>> => jobs' # <<>> ]_vars

\* C4, amended: once a job is registered, a recurring schedule_job call and
\* every firing and dispatch step leave a job registered; a schedule_job
\* call with 'Now' removes it and leaves none
C4_TaskUntilNow ==
    [][ jobs # <<>>
          => IF nCalls' # nCalls /\ lastCall'.interval_type = "Now"
             THEN jobs' = <<>>
             ELSE jobs' # <<>> ]_vars

\* a 'Now' call found a job registered, removed it and is in its dispatch
\* run
C4_Witness ==
    /\ lastCall.interval_type = "Now"
    /\ lastCall.had_job
    /\ jobs = <<>>
    /\ run["fg"].pc = "send"

\* C5: a dispatch run closes the session it opened exactly once on every
\* way out: no session is closed that was not opened, none twice, and a run
\* that has ended has none open
C5_SessionClosedOnce ==
    \A t \in Threads :
        /\ run[t].closed <= run[t].opened
        /\ run[t].opened <= 1
        /\ (run[t].pc \in Terminal /\ run[t].opened > 0) => run[t].closed = 1
        /\ (run[t].pc \in Terminal /\ run[t].opened > 0)
              => (Last(run[t].log).op = "close"
                  /\ Cardinality({k \in 1..Len(run[t].log) : run[t].log[k].op = "close"}) = 1)

\* one run ended by a failed send to its second contact, the other by a
\* failed pick, both with the session closed
C5_Witness ==
    /\ run["fg"].pc = "raised"
    /\ run["fg"].err \in SendErrors
    /\ run["fg"].i = 2
    /\ run["fg"].closed = 1
    /\ run["bg"].pc = "raised"
    /\ run["bg"].err = "TypeError"
    /\ run["bg"].closed = 1

\* the log entries of a run that drive a chat: everything but open and close
ChatOps == {"home", "search", "confirm", "clear", "type", "settle"}

\* C6: when get_driver fails with the login timeout the run is over with
\* that failure, no chat is searched, nothing is typed, and the browser that
\* was started is quit exactly once
C6_LoginTimeoutAborts ==
    \A t \in Threads :
        run[t].err = "LoginTimeout"
           => /\ run[t].pc = "raised"
              /\ ~run[t].ready
              /\ run[t].opened = 1
              /\ run[t].closed = 1
              /\ run[t].log = <<Ev("open", 0, ""), Ev("close", 0, "")>>
              /\ run[t].keys = <<>>
              /\ run[t].msg = NoMsg
              /\ run[t].i = 0

\* the login of a run over two contacts timed out on the scheduler's worker
C6_Witness ==
    /\ run["bg"].err = "LoginTimeout"
    /\ Len(run["bg"].contacts) = 2
    /\ run["bg"].closed = 1

\* the numbers of the friend snapshot
FriendNumbers == { friends[k][3] : k \in 1..Len(friends) }

\* the group has no member number with a friend row
NoResolvableMember(g) ==
    \A k \in 1..Len(groups_members[g]) : groups_members[g][k] \notin FriendNumbers

\* C7: a job_func invocation for a group without resolvable members builds
\* the empty contact list and ends without any session operation: dispatch
\* is not entered, nothing is opened, searched, typed or closed
C7_EmptyGroupNoSession ==
    \A t \in Threads :
        (run[t].njob = 1 /\ run[t].is_group /\ NoResolvableMember(run[t].target_id))
           => /\ run[t].contacts = <<>>
              /\ run[t].pc = "returned"
              /\ run[t].ndispatch = 0
              /\ run[t].opened = 0
              /\ run[t].closed = 0
              /\ run[t].log = <<>>
              /\ run[t].keys = <<>>

\* the trigger of a job for group 2, whose only member has no friend row,
\* has fired
C7_Witness ==
    /\ groups_members[2] = <<"+10003">>
    /\ run["bg"].njob = 1
    /\ run["bg"].is_group
    /\ run["bg"].target_id = 2
    /\ run["bg"].reg > 0
    /\ run["bg"].pc = "returned"

\* contact k of the run was attempted: its chat was driven
Attempted(r, k) == \E e \in 1..Len(r.log) : r.log[e].idx = k /\ r.log[e].op \in ChatOps

\* C8: when pick_message finds no template of the chosen category for the
\* contact at position j, the run is not aborted by it: it does not end
\* with that failure, and a run that ends without a failure has attempted
\* every contact after j whose own pick did not fail
C8_PickFailureSkipsContact ==
    \A t \in Threads :
        \A j \in run[t].nopick :
            /\ run[t].pc \in {"finally", "raised"} => run[t].err # "TypeError"
            /\ run[t].pc = "returned"
                  => \A k \in (j + 1)..Len(run[t].contacts) :
                         k \in run[t].nopick \/ Attempted(run[t], k)

\* C9: when the send to the contact at position i fails, the failure leaves
\* the loop and the run ends with it: no contact after position i is
\* searched or sent to
C9_SendFailureAborts ==
    \A t \in Threads :
        run[t].err \in SendErrors
           => /\ run[t].pc \in {"finally", "raised"}
              /\ \A e \in 1..Len(run[t].log) : run[t].log[e].idx <= run[t].i
              /\ ~Attempted(run[t], run[t].i + 1)
              /\ (run[t].pc = "raised" => run[t].closed = 1)

\* the send to the first of two contacts failed on the header check and the
\* run has ended
C9_Witness ==
    /\ run["fg"].err = "header_mismatch"
    /\ run["fg"].i = 1
    /\ Len(run["fg"].contacts) = 2
    /\ run["fg"].pc = "raised"

\* the numbers of a contact list, in order
NumbersOf(cs) == [k \in 1..Len(cs) |-> cs[k][2]]

\* C10: the contact list job_func builds for a group is, number by number,
\* the group's member list with the numbers that have no friend row left
\* out, and each number comes with the name of the friend row that holds it
C10_GroupResolution ==
    (run["fg"].njob = 1 /\ run["fg"].is_group)
       => LET members == groups_members[run["fg"].target_id]
              res == run["fg"].contacts
          IN  /\ NumbersOf(res) = SelectSeq(members, LAMBDA n : n \in FriendNumbers)
              /\ \A k \in 1..Len(res) :
                    \E j \in 1..Len(friends) :
                        friends[j][3] = res[k][2] /\ friends[j][2] = res[k][1]

\* members Carol, Bob, Alice against the snapshot Alice, Bob: Carol is
\* dropped and Bob comes before Alice
C10_Witness ==
    /\ friends = <<Alice, Bob>>
    /\ groups_members[1] = <<"+10003", "+10002", "+10001">>
    /\ run["fg"].njob = 1
    /\ run["fg"].contacts = << <<"Bob", "+10002">>, <<"Alice", "+10001">> >>

\* the open-chat and send calls of a run, in the order they were made
ChatCalls(r) == SelectSeq(r.log, LAMBDA x : x.op \in {"search", "type"})

\* the positions of the log that hold the driver call op
Calls(r, op) == { k \in 1..Len(r.log) : r.log[k].op = op }

\* C11: a dispatch run opens one session first; its open-chat and send
\* calls alternate, contact by contact in list order, each under the name
\* of its contact; a run that ends without failure has made both calls for
\* every contact; a run that has ended has closed once, as its last call.
\* With two contacts and the second send raising: two open-chat calls in
\* list order, two send calls, then one close
C11_CallOrder ==
    \A t \in Threads :
        LET r == run[t]
            cc == ChatCalls(r)
        IN  r.ready
              => /\ Calls(r, "open") = {1}
                 /\ \A k \in 1..Len(cc) :
                       /\ cc[k].op = IF k % 2 = 1 THEN "search" ELSE "type"
                       /\ cc[k].idx = (k + 1) \div 2
                       /\ cc[k].idx <= Len(r.contacts)
                       /\ cc[k].name = r.contacts[cc[k].idx][1]
                 /\ (r.pc = "returned") => Len(cc) = 2 * Len(r.contacts)
                 /\ (r.pc \in Terminal) => Calls(r, "close") = {Len(r.log)}
                 /\ (r.pc \notin Terminal) => Calls(r, "close") = {}
                 /\ (r.pc = "raised" /\ r.err = "send_error" /\ r.i = 2
                       /\ Len(r.contacts) = 2)
                      => /\ Len(cc) = 4
                         /\ Cardinality(Calls(r, "search")) = 2
                         /\ Cardinality(Calls(r, "type")) = 2
                         /\ Cardinality(Calls(r, "close")) = 1

\* the run for group 1 resolved to Alice, Bob; the send to Bob raised and
\* the run has ended
C11_Witness ==
    /\ run["bg"].contacts = << <<"Alice", "+10001">>, <<"Bob", "+10002">> >>
    /\ run["bg"].pc = "raised"
    /\ run["bg"].err = "send_error"
    /\ run["bg"].i = 2
    /\ [k \in 1..4 |-> ChatCalls(run["bg"])[k].name] = <<"Alice", "Alice", "Bob", "Bob">>
    /\ Last(run["bg"].log).op = "close"

\* C12: at no time are two dispatch runs active, one on the interactive
\* thread and one on the scheduler's worker
C12_AtMostOneActiveRun ==
    ~(run["fg"].pc \in Active /\ run["bg"].pc \in Active)

\* the registration numbers of the jobs sched holds
JobRegs == { jobs[k].reg : k \in 1..Len(jobs) }

\* the worker is inside a dispatch run of a job that sched no longer holds
Orphaned == run["bg"].pc \in Active /\ run["bg"].reg \notin JobRegs

\* the ways a dispatch run fails by itself
RunErrors == SendErrors \cup {"LoginTimeout", "WebDriverException", "TypeError"}

\* C13: a schedule_job call leaves the worker's run as it is; a run whose
\* job was replaced or removed while it was in flight can always take its
\* next step, and when it ends it has closed its session and, unless a
\* failure of its own ended it, has been through every contact; and a
\* firing only ever starts a job that sched holds
C13_InFlightRunNotCancelled ==
    [][ /\ nCalls' # nCalls => run'["bg"] = run["bg"]
        /\ BgStarts => run'["bg"].reg \in JobRegs
        /\ (nCalls' # nCalls \/ run'["bg"] # run["bg"])
              => (Orphaned => ENABLED BgStep)'
        /\ (run["bg"].reg \notin JobRegs /\ run["bg"].pc \in Active /\ run'["bg"].pc \in Terminal)
              => /\ run'["bg"].reg = run["bg"].reg
                 /\ run'["bg"].closed = run'["bg"].opened
                 /\ run'["bg"].err \in RunErrors \cup {"none"}
                 /\ run'["bg"].err = "none"
                       => Len(ChatCalls(run'["bg"])) = 2 * Len(run'["bg"].contacts) ]_vars

\* the job of the first call fired, the second call replaced it, and its
\* run is sending to the second contact
C13_Witness ==
    /\ run["bg"].reg = 1
    /\ run["bg"].pc = "send"
    /\ run["bg"].i = 2
    /\ lastCall.interval_type \in Recurring
    /\ jobs = << LatestJob >>
    /\ lastCall.reg = 2

\* C14, as claimed: the trigger of a 'Monthly' job fires on day 1 of a
\* month and on no other day, and after 60 days of stepping the clock it
\* has fired exactly 2 times
C14_MonthlyTwoFiringsIn60Days ==
    lastCall.interval_type = "Monthly"
       => /\ clock.firedDoms \subseteq {1}
          /\ clock.day = 60 => clock.fired = 2

\* C14, amended: the trigger of a 'Monthly' job fires on day 1 of a month
\* and on no other day, once for every first of a month the clock passes;
\* after 60 days of stepping this makes 1, 2 or 3 firings
C14_MonthlyFiresOnFirst ==
    lastCall.interval_type = "Monthly"
       => /\ clock.firedDoms \subseteq {1}
          /\ clock.fired = clock.firsts
          /\ clock.day = 60 => clock.fired \in 1..3

\* registered on 1 January, stepped 60 days to 2 March: fired on 1 February
\* and 1 March, and the worker ran the job
C14_Witness ==
    /\ lastCall.interval_type = "Monthly"
    /\ clock.day = 60
    /\ ~clock.leap
    /\ clock.month = 3
    /\ clock.dom = 2
    /\ clock.fired = 2
    /\ clock.firedDoms = {1}
    /\ run["bg"].njob = 1

\* p is a prefix of s
IsPrefix(p, s) == Len(p) <= Len(s) /\ SubSeq(s, 1, Len(p)) = p

CategorySet == { Categories[c] : c \in 1..Len(Categories) }

\* every category holds at least one template
AllCategoriesFilled == \A c \in CategorySet : \E row \in template : row.category = c

\* C15: with a template in every category no pick fails, and the message a
\* pick returns starts with exactly one of the three greetings, the one of
\* the category drawn, followed by the content of a template of that
\* category, and carries that template's image flag
C15_PickGreetsByCategory ==
    \A t \in Threads :
        AllCategoriesFilled
           => /\ run[t].err # "TypeError"
              /\ run[t].pc = "send"
                   => LET m == run[t].msg
                          c == run[t].category
                      IN  /\ m.ok
                          /\ c \in CategorySet
                          /\ { g \in CategorySet : IsPrefix(greetings[g], m.text) } = {c}
                          /\ \E row \in template :
                                /\ row.category = c
                                /\ m.text = greetings[c] \o row.content
                                /\ m.is_image = (row.is_image = 1)

\* both threads hold a picked message, a hadith image and a verse
C15_Witness ==
    /\ AllCategoriesFilled
    /\ run["fg"].pc = "send"
    /\ run["fg"].category = "hadith"
    /\ run["fg"].msg.is_image
    /\ run["bg"].pc = "send"
    /\ run["bg"].category = "verse"
    /\ ~run["bg"].msg.is_image

\* the steps of one contact's send protocol, in the order of the protocol
StepOrder == <<"home", "search", "confirm", "clear", "type", "settle">>

\* the log entries of run r made for contact k
StepsFor(r, k) == SelectSeq(r.log, LAMBDA x : x.idx = k)

\* C16: the steps logged for one contact are an initial part of home,
\* search, confirm, clear, type, settle, all under that contact's name, and
\* keys are typed only after the header with that contact's exact name was
\* confirmed in the same call
C16_StepsInOrder ==
    \A t \in Threads :
        LET r == run[t]
        IN  /\ \A k \in 1..Len(r.contacts) :
                  LET steps == StepsFor(r, k)
                  IN  /\ Len(steps) <= Len(StepOrder)
                      /\ \A j \in 1..Len(steps) :
                            /\ steps[j].op = StepOrder[j]
                            /\ steps[j].name = r.contacts[k][1]
            /\ \A p \in 1..Len(r.log) :
                  r.log[p].op = "type"
                     => /\ p > 2
                        /\ r.log[p - 2] = Ev("confirm", r.log[p].idx,
                                             r.contacts[r.log[p].idx][1])
            /\ r.keys # <<>> => \E p \in 1..Len(r.log) : r.log[p].op = "type"

\* the first contact got the message; for the second the header with the
\* name never appeared, and nothing was typed
C16_Witness ==
    LET r == run["fg"]
    IN  /\ Len(r.contacts) = 2
        /\ r.err = "header_mismatch"
        /\ Len(StepsFor(r, 1)) = 6
        /\ StepsFor(r, 2) = <<Ev("home", 2, "Bob"), Ev("search", 2, "Bob")>>
        /\ r.keys = <<>>

\* what the send_keys calls ks put into the compose field: the lines, and
\* a line break for every SHIFT+ENTER
RECURSIVE Typed(_)
Typed(ks) ==
    IF ks = <<>>
    THEN <<>>
    ELSE ks[1].line \o (IF ks[1].key = "SHIFT+ENTER" THEN <<"\n">> ELSE <<>>)
            \o Typed(Tail(ks))

\* the number of lines of a text: its line breaks plus one
NumLines(text) == Cardinality({ j \in 1..Len(text) : text[j] = "\n" }) + 1

\* C17: a send types the k lines of the message in order, no line holding
\* a line break; each of the first k-1 is followed by SHIFT+ENTER and only
\* line k by ENTER, so that a completed send has k-1 SHIFT+ENTER and one
\* ENTER and put the whole text into the field, and a send that broke off
\* has typed an initial part of the text and no ENTER
C17_TypingKeystrokes ==
    [][ \A t \in Threads :
          (run[t].pc = "send" /\ run'[t] # run[t])
             => LET text == run[t].msg.text
                    k == NumLines(text)
                    ks == run'[t].keys
                    enters == { j \in 1..Len(ks) : ks[j].key = "ENTER" }
                    conts == { j \in 1..Len(ks) : ks[j].key = "SHIFT+ENTER" }
                IN  /\ Len(ks) <= k
                    /\ \A j \in 1..Len(ks) :
                          /\ \A c \in 1..Len(ks[j].line) : ks[j].line[c] # "\n"
                          /\ ks[j].key = IF j < k THEN "SHIFT+ENTER" ELSE "ENTER"
                    /\ IsPrefix(Typed(ks), text)
                    /\ enters \subseteq {k}
                    /\ run'[t].err = "none"
                          => /\ Len(ks) = k
                             /\ Typed(ks) = text
                             /\ conts = 1..(k - 1)
                             /\ enters = {k}
                    /\ run'[t].err # "none" => enters = {} ]_vars

\* one run typed the four lines of a verse message and sent them, the
\* other broke off after two lines of its message
C17_Witness ==
    /\ Len(run["fg"].keys) = 4
    /\ run["fg"].keys[3] = [line |-> <<"v">>, key |-> "SHIFT+ENTER"]
    /\ run["fg"].keys[4] = [line |-> <<"w">>, key |-> "ENTER"]
    /\ run["fg"].err = "none"
    /\ run["bg"].err = "send_error"
    /\ Len(run["bg"].keys) = 2

\* C18: a schedule_job call with a recurring interval registers the job
\* and returns with nothing run on the calling thread: no job_func
\* invocation, no dispatch, no browser, no driver call, no key typed; the
\* calling thread only ever runs unregistered ('Now') work, and a run of a
\* registered job starts on the worker, in a step of its own after the
\* call, for a job sched holds at that moment
C18_RecurringOnlyRegisters ==
    [][ /\ (nCalls' # nCalls /\ lastCall'.interval_type \in Recurring)
             => /\ run'["fg"].pc = "idle"
                /\ run'["fg"].njob = 0
                /\ run'["fg"].ndispatch = 0
                /\ run'["fg"].opened = 0
                /\ run'["fg"].log = <<>>
                /\ run'["fg"].keys = <<>>
                /\ run'["bg"] = run["bg"]
                /\ jobs' = <<LatestJob'>>
        /\ run'["fg"].reg = 0
        /\ (run'["bg"].njob = 1 /\ run'["bg"].pc = "open" /\ run["bg"].pc # "open")
             => /\ nCalls' = nCalls
                /\ jobs' = jobs
                /\ \E k \in 1..Len(jobs) :
                      /\ jobs[k].reg = run'["bg"].reg
                      /\ jobs[k].is_group = run'["bg"].is_group
                      /\ jobs[k].target_id = run'["bg"].target_id
                      /\ jobs[k].args.trigger \in {"interval", "cron"} ]_vars

\* a weekly job for group 1 was registered with nothing run on the calling
\* thread, and its firing has the worker in the middle of the dispatch run
C18_Witness ==
    /\ nCalls = 1
    /\ lastCall.interval_type = "Weekly"
    /\ lastCall.is_group
    /\ jobs = <<LatestJob>>
    /\ run["fg"] = Blank
    /\ run["bg"].reg = 1
    /\ run["bg"].pc = "send"
    /\ run["bg"].opened = 1

\* the ids of the rows of the friend snapshot
FriendIds == { friends[k][1] : k \in 1..Len(friends) }

\* C19: a job_func invocation for a single friend whose id has no row in
\* the snapshot ends with the error of the lookup, not with an empty or
\* partial contact list taken as a result: dispatch is not entered, no
\* browser is started, no driver call is made and no key is typed; and the
\* lookup fails for no other selection
C19_AbsentFriendFails ==
    \A t \in Threads :
        /\ (run[t].njob = 1 /\ ~run[t].is_group /\ run[t].target_id \notin FriendIds)
              => /\ run[t].pc = "raised"
                 /\ run[t].err = "StopIteration"
                 /\ run[t].contacts = <<>>
                 /\ run[t].ndispatch = 0
                 /\ run[t].opened = 0
                 /\ run[t].closed = 0
                 /\ run[t].log = <<>>
                 /\ run[t].keys = <<>>
                 /\ run[t].msg = NoMsg
        /\ run[t].err = "StopIteration"
              => ~run[t].is_group /\ run[t].target_id \notin FriendIds

\* friend 3 has no row: a 'Now' call for it failed on the calling thread,
\* and a registered job for it failed on the worker
C19_Witness ==
    /\ 3 \notin FriendIds
    /\ run["fg"].njob = 1
    /\ run["fg"].target_id = 3
    /\ run["fg"].err = "StopIteration"
    /\ run["bg"].njob = 1
    /\ run["bg"].target_id = 3
    /\ run["bg"].reg > 0
    /\ run["bg"].pc = "raised"

====
